---- MODULE Spec2Model ----
(***************************************************************************)
(* State-machine model of the podcast transcript browser.                  *)
(*   app.js  : AppState, index load, keyword/search/sort pipeline, the     *)
(*             debounced search box, episode detail loading.               *)
(*   chat.js : ChatState, sendChatMessage, queryClaude / queryOpenAI       *)
(*             (the chat script is the part of src/frontend/serve.sh that  *)
(*             follows the shell lines 1-27).                              *)
(* Strings are sequences of one-character strings so that trim,            *)
(* toLowerCase, includes and join are computed, not assumed.               *)
(***************************************************************************)
EXTENDS Integers, Sequences, FiniteSets, TLC

VARIABLES
    \* ---- AppState (app.js 6-14)
    indexData,          \* NullValue, or [total_episodes, all_keywords]
    allEpisodes,        \* sequence of episode records
    filteredEpisodes,   \* sequence of episode records (the displayed list)
    selectedKeywords,   \* set of keywords
    currentSort,        \* "views" | "duration" | "title"
    searchQuery,        \* string
    currentEpisode,     \* NullValue, or an episode record with fullTranscript
    \* ---- DOM and network state of app.js
    pagePhase,          \* "start" before DOMContentLoaded finished, then "ready"
    detailVisible,      \* #episode-detail lacks class hidden
    loadingVisible,     \* #loading lacks class hidden
    transcriptFetches,  \* outstanding loadEpisodeDetail calls: their slugs, in call order
    \* ---- history variables of app.js
    lastOp,             \* the handler that ran last
    loadedIndex,        \* the document response.json() delivered, or NullValue
    clicks,             \* number of episode-card clicks so far
    lastClicked,        \* slug of the card clicked last, or NoSlug
    fetchedText,        \* the text response.text() delivered last, or NullValue
    \* ---- the search box and its debounce closure (app.js 58, 374-384)
    searchInputValue,   \* value of #search-input
    timers,             \* the browser's pending timeouts: [id, event, remaining]
    timeout,            \* the closure variable timeout: a timer id, or 0 for undefined
    keystrokes,         \* input events of the search box so far; event k is the k-th
    sinceKeystroke,     \* ms since the last input event, counted up to DebounceWait
    handledEvents,      \* the events handleSearch ran with, in order
    \* ---- ChatState (chat.js)
    apiKey,
    provider,
    conversationHistory,
    \* ---- DOM and network state of chat.js
    sendDisabled,       \* sendBtn.disabled
    chatMessages,       \* #chat-messages children: number of elements per type
    aiRequests,         \* outstanding queryAI calls: [message, provider, context], in call order
    \* ---- history variables of chat.js
    sends,              \* sendChatMessage calls so far that had a message to send
    turnLog             \* turns appended since the history was last emptied

appVars == <<indexData, allEpisodes, filteredEpisodes, selectedKeywords,
             currentSort, searchQuery, lastOp, loadedIndex, pagePhase>>
detailVars == <<currentEpisode, detailVisible, loadingVisible,
                transcriptFetches, clicks, lastClicked, fetchedText>>
chatVars == <<apiKey, provider, conversationHistory, sendDisabled,
              chatMessages, aiRequests, sends, turnLog>>
searchVars == <<searchInputValue, timers, timeout, keystrokes, sinceKeystroke,
                handledEvents>>
vars == <<appVars, detailVars, chatVars, searchVars>>

\* JavaScript null / undefined where a record is expected, and where a string is
NullValue == [isNull |-> TRUE]
NoSlug == "none"

-----------------------------------------------------------------------------
(* Bounds of the exploration *)

\* provider requests issued in one behaviour
MaxSends == 6
\* provider requests outstanding at the same time
MaxInFlight == 2
\* episode-card clicks in one behaviour
MaxClicks == 3
\* input events of the search box in one behaviour
MaxKeystrokes == 3

-----------------------------------------------------------------------------
(* Strings *)

NL == "\n"
SP == " "

IsSpace(c) == c \in {SP, NL}

ToLowerChar(c) ==
    CASE c = "A" -> "a"
      [] c = "B" -> "b"
      [] c = "C" -> "c"
      [] c = "G" -> "g"
      [] c = "Y" -> "y"
      [] OTHER -> c

\* String.prototype.toLowerCase
ToLower(s) == [i \in 1..Len(s) |-> ToLowerChar(s[i])]

\* String.prototype.trim
RECURSIVE TrimLeft(_)
TrimLeft(s) ==
    IF s # <<>> /\ IsSpace(Head(s)) THEN TrimLeft(Tail(s)) ELSE s

RECURSIVE TrimRight(_)
TrimRight(s) ==
    IF s # <<>> /\ IsSpace(s[Len(s)])
    THEN TrimRight(SubSeq(s, 1, Len(s) - 1))
    ELSE s

Trim(s) == TrimRight(TrimLeft(s))

\* String.prototype.includes
Includes(s, q) ==
    \E i \in 0..(Len(s) - Len(q)) : SubSeq(s, i + 1, i + Len(q)) = q

\* Array.prototype.join
RECURSIVE Join(_, _)
Join(strs, sep) ==
    IF strs = <<>> THEN <<>>
    ELSE IF Len(strs) = 1 THEN strs[1]
    ELSE strs[1] \o sep \o Join(Tail(strs), sep)

\* Array.prototype.includes on a keyword list
ListIncludes(list, x) == \E i \in 1..Len(list) : list[i] = x

Range(seq) == {seq[i] : i \in 1..Len(seq)}

-----------------------------------------------------------------------------
(* The index document: data/index.json *)

KwGrowth  == <<"g">>
KwPricing == <<"p">>
KwHiring  == <<"h">>

Ep1 == [slug |-> "e1", guest |-> <<"C", "y">>, title |-> <<"G", "a">>,
        description |-> <<>>, keywords |-> <<KwGrowth>>,
        duration_seconds |-> 10, view_count |-> 30]
Ep2 == [slug |-> "e2", guest |-> <<"a", "b">>, title |-> <<"b">>,
        description |-> <<"c">>, keywords |-> <<KwPricing, KwGrowth>>,
        duration_seconds |-> 20, view_count |-> 30]
Ep3 == [slug |-> "e3", guest |-> <<"A", "b">>, title |-> <<"C", "a">>,
        description |-> <<"a", " ", "b">>, keywords |-> <<KwHiring>>,
        duration_seconds |-> 20, view_count |-> 10]

\* The documents the index fetch may deliver: the same records in two orders.
IndexDocuments ==
    { [total_episodes |-> 3, all_keywords |-> <<KwHiring, KwPricing, KwGrowth>>,
       episodes |-> <<Ep1, Ep2, Ep3>>],
      [total_episodes |-> 3, all_keywords |-> <<KwPricing, KwGrowth, KwHiring>>,
       episodes |-> <<Ep3, Ep2, Ep1>>] }

\* Raw values of the search box (before trim and toLowerCase)
SearchInputs ==
    { <<>>, <<" ">>, <<"A", "b", " ">>, <<"G">>, <<"p", " ", "g">>, <<"a", " ", "b">> }

SortModes == {"views", "duration", "title"}

-----------------------------------------------------------------------------
(* Array.prototype.sort: a stable sort by the comparator *)

\* cmp[i][j] is the comparator's result for seq[i], seq[j]
StableSort(seq, cmp) ==
    LET n == Len(seq)
        Before(j, i) == \/ cmp[j][i] < 0
                        \/ (cmp[j][i] = 0 /\ j < i)
        Pos(i) == 1 + Cardinality({j \in 1..n : j # i /\ Before(j, i)})
    IN  [k \in 1..n |-> seq[CHOOSE i \in 1..n : Pos(i) = k]]

\* String.prototype.localeCompare (root collation): white space before
\* letters, letters alphabetically without regard to case, and for strings
\* that differ in case only, lower case first.
CharRank(c) ==
    CASE c = NL -> 0
      [] c = SP -> 1
      [] c = "-" -> 2
      [] c = "a" -> 10
      [] c = "b" -> 11
      [] c = "c" -> 12
      [] c = "g" -> 13
      [] c = "h" -> 14
      [] c = "p" -> 15
      [] c = "y" -> 16
      [] OTHER -> 99

RECURSIVE PrimaryCompare(_, _)
PrimaryCompare(x, y) ==
    IF x = <<>> /\ y = <<>> THEN 0
    ELSE IF x = <<>> THEN -1
    ELSE IF y = <<>> THEN 1
    ELSE IF CharRank(Head(x)) < CharRank(Head(y)) THEN -1
    ELSE IF CharRank(Head(x)) > CharRank(Head(y)) THEN 1
    ELSE PrimaryCompare(Tail(x), Tail(y))

RECURSIVE CaseCompare(_, _)
CaseCompare(x, y) ==
    IF x = <<>> \/ y = <<>> THEN 0
    ELSE IF Head(x) = Head(y) THEN CaseCompare(Tail(x), Tail(y))
    ELSE IF ToLowerChar(Head(x)) = Head(x) THEN -1
    ELSE 1

LocaleCompare(x, y) ==
    LET p == PrimaryCompare(ToLower(x), ToLower(y))
    IN  IF p # 0 THEN p ELSE CaseCompare(x, y)

\* faulty variant: ascending instead of descending view counts
CompareViews_Ascending(a, b) == a.view_count - b.view_count

CompareViews(a, b) == b.view_count - a.view_count
CompareDuration(a, b) == b.duration_seconds - a.duration_seconds
CompareGuest(a, b) == LocaleCompare(a.guest, b.guest)

\* sortEpisodes: the value AppState.filteredEpisodes holds after the call
sortEpisodes(list, sort) ==
    LET n == Len(list)
        byViews == [i \in 1..n |-> [j \in 1..n |-> CompareViews(list[i], list[j])]]
        byDuration == [i \in 1..n |-> [j \in 1..n |-> CompareDuration(list[i], list[j])]]
        byGuest == [i \in 1..n |-> [j \in 1..n |-> CompareGuest(list[i], list[j])]]
    IN  CASE sort = "views" -> StableSort(list, byViews)
          [] sort = "duration" -> StableSort(list, byDuration)
          [] sort = "title" -> StableSort(list, byGuest)
          [] OTHER -> list

-----------------------------------------------------------------------------
(* applyFilters *)

\* The template literal of app.js 158-163, lower-cased
Indent16 == <<SP, SP, SP, SP, SP, SP, SP, SP, SP, SP, SP, SP, SP, SP, SP, SP>>
Indent12 == <<SP, SP, SP, SP, SP, SP, SP, SP, SP, SP, SP, SP>>

SearchText(episode) ==
    ToLower(<<NL>> \o Indent16 \o episode.guest
            \o <<NL>> \o Indent16 \o episode.title
            \o <<NL>> \o Indent16 \o episode.description
            \o <<NL>> \o Indent16 \o Join(episode.keywords, <<SP>>)
            \o <<NL>> \o Indent12)

\* faulty variant: OR across the selected keywords
HasAllKeywords_Any(episode, keywords) ==
    \E keyword \in keywords : ListIncludes(episode.keywords, keyword)

HasAllKeywords(episode, keywords) ==
    \A keyword \in keywords : ListIncludes(episode.keywords, keyword)

MatchesSearch(episode, query) == Includes(SearchText(episode), query)

\* The list applyFilters stores in AppState.filteredEpisodes before sorting
FilterEpisodes(all, keywords, query) ==
    LET KeepKw(ep) == HasAllKeywords(ep, keywords)
        KeepQ(ep) == MatchesSearch(ep, query)
        byKeyword == IF Cardinality(keywords) > 0 THEN SelectSeq(all, KeepKw) ELSE all
    IN  IF query # <<>> THEN SelectSeq(byKeyword, KeepQ) ELSE byKeyword

\* keywordCounts of renderKeywordFilters
KeywordCount(all, keyword) ==
    LET Occ(ep) == Cardinality({i \in 1..Len(ep.keywords) : ep.keywords[i] = keyword})
        RECURSIVE Sum(_)
        Sum(eps) == IF eps = <<>> THEN 0 ELSE Occ(Head(eps)) + Sum(Tail(eps))
    IN  Sum(all)

\* all_keywords after the in-place sort of renderKeywordFilters
SortKeywords(all, keywords) ==
    LET n == Len(keywords)
        cmp == [i \in 1..n |-> [j \in 1..n |->
                  KeywordCount(all, keywords[j]) - KeywordCount(all, keywords[i])]]
    IN  StableSort(keywords, cmp)

-----------------------------------------------------------------------------
(* Handlers of app.js: index load and the filter/sort pipeline *)

\* The DOMContentLoaded handler: loadIndex, setupEventListeners,
\* renderKeywordFilters, renderEpisodes.  doc is the parsed index document;
\* NullValue stands for a rejected fetch, a non-OK response or invalid JSON.
DOMContentLoaded(doc) ==
    /\ pagePhase = "start"
    /\ pagePhase' = "ready"
    /\ IF doc # NullValue
       THEN /\ indexData' = [total_episodes |-> doc.total_episodes,
                             all_keywords |-> SortKeywords(doc.episodes, doc.all_keywords)]
            /\ allEpisodes' = doc.episodes
            /\ filteredEpisodes' = doc.episodes
       ELSE UNCHANGED <<indexData, allEpisodes, filteredEpisodes>>
    /\ loadedIndex' = doc
    /\ lastOp' = "load"
    /\ UNCHANGED <<selectedKeywords, currentSort, searchQuery>>
    /\ UNCHANGED <<detailVars, chatVars, searchVars>>

\* applyFilters, with the state it reads passed in
applyFilters(keywords, query) ==
    filteredEpisodes' =
        sortEpisodes(FilterEpisodes(allEpisodes, keywords, query), currentSort)

\* change event of a keyword checkbox; the box is checked exactly when the
\* keyword was not selected before the click
handleKeywordFilter(keyword) ==
    /\ pagePhase = "ready"
    /\ indexData # NullValue
    /\ ListIncludes(indexData.all_keywords, keyword)
    /\ LET checked == keyword \notin selectedKeywords
       IN  /\ selectedKeywords' = IF checked THEN selectedKeywords \cup {keyword}
                                  ELSE selectedKeywords \ {keyword}
           /\ applyFilters(selectedKeywords', searchQuery)
    /\ lastOp' = "keyword"
    /\ UNCHANGED <<indexData, allEpisodes, currentSort, searchQuery, pagePhase,
                   loadedIndex>>
    /\ UNCHANGED <<detailVars, chatVars, searchVars>>

\* handleSearch(event), where value is event.target.value when it runs.  The
\* caller says what becomes of the search box and the timers.
handleSearch(value) ==
    /\ pagePhase = "ready"
    /\ searchQuery' = ToLower(Trim(value))
    /\ applyFilters(selectedKeywords, searchQuery')
    /\ lastOp' = "search"
    /\ UNCHANGED <<indexData, allEpisodes, currentSort, selectedKeywords, pagePhase,
                   loadedIndex>>
    /\ UNCHANGED <<detailVars, chatVars>>

\* change event of a sort radio button
handleSortChange(value) ==
    /\ pagePhase = "ready"
    /\ currentSort' = value
    /\ filteredEpisodes' = sortEpisodes(filteredEpisodes, value)
    /\ lastOp' = "sort"
    /\ UNCHANGED <<indexData, allEpisodes, selectedKeywords, searchQuery, pagePhase,
                   loadedIndex>>
    /\ UNCHANGED <<detailVars, chatVars, searchVars>>

-----------------------------------------------------------------------------
(* app.js: debounce(handleSearch, 300) as the input listener of the search box *)

\* the wait passed to debounce
DebounceWait == 300

\* Time passes in steps of a third of the wait
TimeStep == DebounceWait \div 3

\* clearTimeout(id): an id that is not pending is ignored
clearTimeout(pending, id) == {t \in pending : t.id # id}

\* setTimeout(later, wait), where later holds the event as args
setTimeout(pending, id, event, wait) ==
    pending \cup {[id |-> id, event |-> event, remaining |-> wait]}

\* faulty variant: the pending timer is not cleared before the new one is set
executedFunction_NoClear(value) ==
    /\ pagePhase = "ready"
    /\ keystrokes < MaxKeystrokes
    /\ keystrokes' = keystrokes + 1
    /\ searchInputValue' = value
    /\ timers' = setTimeout(timers, keystrokes', keystrokes', DebounceWait)
    /\ timeout' = keystrokes'
    /\ sinceKeystroke' = 0
    /\ UNCHANGED handledEvents
    /\ UNCHANGED <<appVars, detailVars, chatVars>>

\* The function debounce returns, run for an input event of the search box
\* that leaves value in the box.  The event and the timer id are numbered by
\* the count of input events.
executedFunction(value) ==
    /\ pagePhase = "ready"
    /\ keystrokes < MaxKeystrokes
    /\ keystrokes' = keystrokes + 1
    /\ searchInputValue' = value
    /\ timers' = setTimeout(clearTimeout(timers, timeout),
                            keystrokes', keystrokes', DebounceWait)
    /\ timeout' = keystrokes'
    /\ sinceKeystroke' = 0
    /\ UNCHANGED handledEvents
    /\ UNCHANGED <<appVars, detailVars, chatVars>>

\* TimeStep ms pass with no event handled
timePasses ==
    /\ timers' = {[t EXCEPT !.remaining = IF @ > TimeStep THEN @ - TimeStep ELSE 0] :
                    t \in timers}
    /\ sinceKeystroke' = IF sinceKeystroke + TimeStep < DebounceWait
                          THEN sinceKeystroke + TimeStep ELSE DebounceWait
    /\ UNCHANGED <<searchInputValue, timeout, keystrokes, handledEvents>>
    /\ UNCHANGED <<appVars, detailVars, chatVars>>

\* The callback later of an expired timer t: clearTimeout(timeout), then
\* handleSearch with the event the timer was set for
later(t) ==
    /\ t \in timers
    /\ t.remaining = 0
    /\ timers' = clearTimeout(timers \ {t}, timeout)
    /\ handleSearch(searchInputValue)
    /\ handledEvents' = Append(handledEvents, t.event)
    /\ UNCHANGED <<searchInputValue, timeout, keystrokes, sinceKeystroke>>

-----------------------------------------------------------------------------
(* Handlers of app.js: the episode detail view *)

Dashes == <<"-", "-", "-">>

\* Bodies a transcript fetch may deliver
TranscriptTexts ==
    { <<"a", SP, "b">>,
      <<SP, "a", NL>>,
      Dashes \o <<NL, "a", SP>>,
      Dashes \o <<NL, "g", NL>> \o Dashes \o <<NL, "b", NL>> }

\* Positions e >= from at which the pattern \s*\n, started at from, can end
WsRunEnds(text, from) ==
    {e \in from..Len(text) :
        text[e] = NL /\ \A i \in from..e : IsSpace(text[i])}

\* Positions q >= p at which \n---\s*\n matches
SecondDelimiters(text, p) ==
    {q \in p..(Len(text) - 3) :
        /\ text[q] = NL
        /\ SubSeq(text, q + 1, q + 3) = Dashes
        /\ WsRunEnds(text, q + 4) # {}}

SetMax(set) == CHOOSE x \in set : \A y \in set : y <= x
SetMin(set) == CHOOSE x \in set : \A y \in set : x <= y

\* fullText.match(/^---\s*\n.*?\n---\s*\n(.*)$/s): the first alternative of
\* the backtracking search (greedy \s*, lazy .*?).  <<>> without a match,
\* otherwise <<the text of group 1>>
FrontmatterMatch(text) ==
    IF Len(text) < 3 \/ SubSeq(text, 1, 3) # Dashes THEN <<>>
    ELSE LET firsts == {e \in WsRunEnds(text, 4) : SecondDelimiters(text, e + 1) # {}}
         IN  IF firsts = {} THEN <<>>
             ELSE LET e1 == SetMax(firsts)
                      q == SetMin(SecondDelimiters(text, e1 + 1))
                      e2 == SetMax(WsRunEnds(text, q + 4))
                  IN  <<SubSeq(text, e2 + 1, Len(text))>>

\* faulty variant: the content is returned without trim()
parseTranscript_NoTrim(fullText) ==
    LET match == FrontmatterMatch(fullText)
    IN  IF match # <<>> THEN match[1] ELSE fullText

\* parseTranscript(fullText).content
parseTranscript(fullText) ==
    LET match == FrontmatterMatch(fullText)
        content == IF match # <<>> THEN match[1] ELSE fullText
    IN  Trim(content)

\* AppState.allEpisodes.find(ep => ep.slug === slug)
FindEpisode(all, slug) ==
    IF \E i \in 1..Len(all) : all[i].slug = slug
    THEN all[CHOOSE i \in 1..Len(all) :
                /\ all[i].slug = slug
                /\ \A j \in 1..(i - 1) : all[j].slug # slug]
    ELSE NullValue

RemoveAt(seq, i) == SubSeq(seq, 1, i - 1) \o SubSeq(seq, i + 1, Len(seq))

\* Click on an episode card: loadEpisodeDetail up to its first await.  Cards
\* exist for the records of filteredEpisodes and can be clicked while the
\* list container is shown.
loadEpisodeDetail(slug) ==
    /\ pagePhase = "ready"
    /\ ~detailVisible
    /\ clicks < MaxClicks
    /\ \E i \in 1..Len(filteredEpisodes) : filteredEpisodes[i].slug = slug
    /\ clicks' = clicks + 1
    /\ lastClicked' = slug
    /\ IF FindEpisode(allEpisodes, slug) = NullValue
       THEN \* throw 'Episode not found', catch, finally
            /\ loadingVisible' = FALSE
            /\ UNCHANGED transcriptFetches
       ELSE /\ loadingVisible' = TRUE
            /\ transcriptFetches' = Append(transcriptFetches, slug)
    /\ UNCHANGED <<currentEpisode, detailVisible, fetchedText>>
    /\ UNCHANGED <<appVars, chatVars, searchVars>>

\* What AppState.currentEpisode holds after app.js 271
StoreCurrentEpisode(episode, content) ==
    [f \in DOMAIN episode \cup {"fullTranscript"} |->
        IF f = "fullTranscript" THEN content ELSE episode[f]]

\* The rest of loadEpisodeDetail once the fetch of call i settles.
\*   outcome "failed"       : fetch rejected or response not OK
\*   outcome "render_throws": text delivered, renderEpisodeDetail throws
\*                            (marked is loaded from a CDN, app.js 308)
\*   outcome "ok"           : text delivered and rendered
TranscriptFetchSettles(i, outcome, text) ==
    /\ i \in 1..Len(transcriptFetches)
    /\ transcriptFetches' = RemoveAt(transcriptFetches, i)
    /\ LET episode == FindEpisode(allEpisodes, transcriptFetches[i])
       IN  IF outcome = "failed"
           THEN UNCHANGED <<currentEpisode, detailVisible, fetchedText>>
           ELSE /\ fetchedText' = text
                /\ currentEpisode' = StoreCurrentEpisode(episode, parseTranscript(text))
                /\ detailVisible' = IF outcome = "ok" THEN TRUE ELSE detailVisible
    /\ loadingVisible' = FALSE
    /\ UNCHANGED <<clicks, lastClicked>>
    /\ UNCHANGED <<appVars, chatVars, searchVars>>

FetchOutcomes == {"ok", "failed", "render_throws"}

\* Click on #close-detail, which is part of the detail view
closeDetailView ==
    /\ pagePhase = "ready"
    /\ detailVisible
    /\ detailVisible' = FALSE
    /\ currentEpisode' = NullValue
    /\ UNCHANGED <<loadingVisible, transcriptFetches, clicks, lastClicked,
                   fetchedText>>
    /\ UNCHANGED <<appVars, chatVars, searchVars>>

-----------------------------------------------------------------------------
(* chat.js *)

Providers == {"claude", "openai"}

\* Values of the API key field
ApiKeys == { <<>>, <<"k">> }

\* Values of the chat input when a send is triggered
ChatInputs == { <<SP>>, <<"a", SP>>, <<"b">> }

\* Reply texts a provider may deliver
Replies == { <<"y">> }

\* Ways a provider call can end: a well-formed 2xx response, a non-OK
\* response, a rejected fetch, a 2xx response without the reply field
RequestOutcomes == {"ok", "http_error", "network_error", "malformed"}

HistoryLimit == 10

\* Array.prototype.slice(-n)
SliceLast(seq, n) ==
    IF Len(seq) <= n THEN seq ELSE SubSeq(seq, Len(seq) - n + 1, Len(seq))

\* faulty variant: keeps the oldest turns, slice(0, 10)
LimitHistory_KeepsOldest(history) ==
    IF Len(history) > HistoryLimit THEN SubSeq(history, 1, HistoryLimit) ELSE history

\* faulty variant: cuts to the last 9 turns, slice(-9)
LimitHistory_OddCut(history) ==
    IF Len(history) > HistoryLimit THEN SliceLast(history, HistoryLimit - 1) ELSE history

\* chat.js "Keep conversation history limited"
LimitHistory(history) ==
    IF Len(history) > HistoryLimit THEN SliceLast(history, HistoryLimit) ELSE history

TurnPair(message, reply) ==
    << [role |-> "user", content |-> message],
       [role |-> "assistant", content |-> reply] >>

\* faulty variant: the user turn is pushed before the response is checked
queryClaude_PushesBeforeCheck(history, message, outcome, reply) ==
    IF outcome = "ok"
    THEN LimitHistory(history \o TurnPair(message, reply))
    ELSE LimitHistory(Append(history, [role |-> "user", content |-> message]))

\* queryClaude from the settled fetch on: the value of
\* ChatState.conversationHistory when the call returns or throws
queryClaude(history, message, outcome, reply) ==
    IF outcome = "ok"
    THEN LimitHistory(history \o TurnPair(message, reply))
    ELSE history

\* queryOpenAI from the settled fetch on
queryOpenAI(history, message, outcome, reply) ==
    IF outcome = "ok"
    THEN LimitHistory(history \o TurnPair(message, reply))
    ELSE history

\* queryAI: the provider is read when the call starts
queryAI(history, request, outcome, reply) ==
    IF request.provider = "claude"
    THEN queryClaude(history, request.message, outcome, reply)
    ELSE queryOpenAI(history, request.message, outcome, reply)

\* addChatMessage(type, content): one more element of that type
addChatMessage(messages, type) ==
    [messages EXCEPT ![type] = @ + 1]

\* getContextForChat: "Limit transcript length"
TranscriptLimit == 8000
\* getContextForChat: number of displayed episodes described to the provider
EpisodeListLimit == 10

\* String.prototype.substring(0, n)
Substring0(s, n) == SubSeq(s, 1, IF Len(s) < n THEN Len(s) ELSE n)

\* Array.prototype.slice(0, n)
Slice0(seq, n) == SubSeq(seq, 1, IF Len(seq) < n THEN Len(seq) ELSE n)

\* ep => ({guest, title, keywords})
EpisodeSummary(ep) ==
    [guest |-> ep.guest, title |-> ep.title, keywords |-> ep.keywords]

\* faulty variant: the whole transcript is put into the context
getContextForChat_WholeTranscript(all, filtered, keywords, episode) ==
    [totalEpisodes |-> Len(all),
     filteredEpisodes |-> Len(filtered),
     selectedKeywords |-> keywords,
     currentEpisode |->
        IF episode # NullValue
        THEN [guest |-> episode.guest, title |-> episode.title,
              keywords |-> episode.keywords,
              transcript |-> episode.fullTranscript]
        ELSE NullValue,
     availableEpisodes |->
        [i \in 1..Len(Slice0(filtered, EpisodeListLimit)) |->
            EpisodeSummary(filtered[i])]]

\* getContextForChat, with the AppState fields it reads passed in.  A context
\* without currentEpisode has NullValue in that field.
getContextForChat(all, filtered, keywords, episode) ==
    [totalEpisodes |-> Len(all),
     filteredEpisodes |-> Len(filtered),
     selectedKeywords |-> keywords,
     currentEpisode |->
        IF episode # NullValue
        THEN [guest |-> episode.guest, title |-> episode.title,
              keywords |-> episode.keywords,
              transcript |-> Substring0(episode.fullTranscript, TranscriptLimit)]
        ELSE NullValue,
     availableEpisodes |->
        [i \in 1..Len(Slice0(filtered, EpisodeListLimit)) |->
            EpisodeSummary(Slice0(filtered, EpisodeListLimit)[i])]]

\* faulty variant: the key check is missing
KeyMissing_Never(key) == FALSE

\* !ChatState.apiKey
KeyMissing(key) == key = <<>>

\* input event of #api-key-input
apiKeyInput(value) ==
    /\ apiKey' = value
    /\ UNCHANGED <<provider, conversationHistory, sendDisabled, chatMessages,
                   aiRequests, sends, turnLog>>
    /\ UNCHANGED <<appVars, detailVars, searchVars>>

\* change event of #api-provider
providerChange(value) ==
    /\ provider' = value
    /\ UNCHANGED <<apiKey, conversationHistory, sendDisabled, chatMessages,
                   aiRequests, sends, turnLog>>
    /\ UNCHANGED <<appVars, detailVars, searchVars>>

\* sendChatMessage up to its await.  via "click" is the click listener of
\* the send button, which a disabled button does not deliver; via "enter" is
\* the keydown listener of the chat input.
sendChatMessage(text, via) ==
    /\ via = "click" => ~sendDisabled
    /\ LET message == Trim(text)
       IN  IF message = <<>>
           THEN UNCHANGED chatVars
           ELSE /\ sends < MaxSends
                /\ sends' = sends + 1
                /\ IF KeyMissing(apiKey)
                   THEN /\ chatMessages' = addChatMessage(chatMessages, "error")
                        /\ UNCHANGED <<sendDisabled, aiRequests>>
                   ELSE /\ Len(aiRequests) < MaxInFlight
                        /\ chatMessages' = addChatMessage(chatMessages, "user")
                        /\ sendDisabled' = TRUE
                        /\ aiRequests' = Append(aiRequests,
                               [message |-> message, provider |-> provider,
                                context |-> getContextForChat(allEpisodes,
                                    filteredEpisodes, selectedKeywords,
                                    currentEpisode)])
                /\ UNCHANGED <<apiKey, provider, conversationHistory, turnLog>>
    /\ UNCHANGED <<appVars, detailVars, searchVars>>

\* The rest of sendChatMessage once the fetch of request i settles: the
\* provider function finishes, then the try / catch / finally of
\* sendChatMessage.  No event handler runs in between.
RequestSettles(i, outcome, reply) ==
    /\ i \in 1..Len(aiRequests)
    /\ aiRequests' = RemoveAt(aiRequests, i)
    /\ conversationHistory' = queryAI(conversationHistory, aiRequests[i], outcome, reply)
    /\ turnLog' = IF outcome = "ok"
                  THEN turnLog \o TurnPair(aiRequests[i].message, reply)
                  ELSE turnLog
    /\ chatMessages' = addChatMessage(chatMessages,
                           IF outcome = "ok" THEN "assistant" ELSE "error")
    /\ sendDisabled' = FALSE
    /\ UNCHANGED <<apiKey, provider, sends>>
    /\ UNCHANGED <<appVars, detailVars, searchVars>>

NoChatMessages == [type \in {"user", "assistant", "error", "system"} |-> 0]

\* window.ChatUtils.clearChatHistory
clearChatHistory ==
    /\ conversationHistory' = <<>>
    /\ chatMessages' = [NoChatMessages EXCEPT !["system"] = 1]
    /\ turnLog' = <<>>
    /\ UNCHANGED <<apiKey, provider, sendDisabled, aiRequests, sends>>
    /\ UNCHANGED <<appVars, detailVars, searchVars>>

-----------------------------------------------------------------------------
(* Specifications *)

InitSearchBox ==
    /\ searchInputValue = <<>>
    /\ timers = {}
    /\ timeout = 0
    /\ keystrokes = 0
    /\ sinceKeystroke = 0
    /\ handledEvents = <<>>

InitApp ==
    /\ indexData = NullValue
    /\ allEpisodes = <<>>
    /\ filteredEpisodes = <<>>
    /\ selectedKeywords = {}
    /\ currentSort = "views"
    /\ searchQuery = <<>>
    /\ currentEpisode = NullValue
    /\ pagePhase = "start"
    /\ detailVisible = FALSE
    /\ loadingVisible = FALSE
    /\ transcriptFetches = <<>>
    /\ lastOp = "none"
    /\ loadedIndex = NullValue
    /\ clicks = 0
    /\ lastClicked = NoSlug
    /\ fetchedText = NullValue
    /\ InitSearchBox

\* apiKey and provider come from localStorage
InitChat ==
    /\ apiKey \in ApiKeys
    /\ provider \in Providers
    /\ conversationHistory = <<>>
    /\ sendDisabled = FALSE
    /\ chatMessages = NoChatMessages
    /\ aiRequests = <<>>
    /\ sends = 0
    /\ turnLog = <<>>

Init == InitApp /\ InitChat

LoadStep == \E doc \in IndexDocuments \cup {NullValue} : DOMContentLoaded(doc)

KeywordStep == \E keyword \in {KwGrowth, KwPricing, KwHiring} : handleKeywordFilter(keyword)

\* A burst of input events that leaves value in the search box, and the
\* expiry of its timer, as one step
SearchStep ==
    \E value \in SearchInputs :
        /\ handleSearch(value)
        /\ searchInputValue' = value
        /\ UNCHANGED <<timers, timeout, keystrokes, sinceKeystroke, handledEvents>>

SearchInputStep == \E value \in SearchInputs : executedFunction(value)

TimerStep == \E t \in timers : later(t)

SortStep == \E value \in SortModes : handleSortChange(value)

CardClickStep == \E slug \in {"e1", "e2", "e3"} : loadEpisodeDetail(slug)

FetchSettlesStep ==
    \E i \in 1..MaxClicks, outcome \in FetchOutcomes, text \in TranscriptTexts :
        TranscriptFetchSettles(i, outcome, text)

ApiKeyStep == \E value \in ApiKeys : apiKeyInput(value)

ProviderStep == \E value \in Providers : providerChange(value)

SendStep == \E text \in ChatInputs, via \in {"click", "enter"} : sendChatMessage(text, via)

RequestSettlesStep ==
    \E i \in 1..MaxSends, outcome \in RequestOutcomes, reply \in Replies :
        RequestSettles(i, outcome, reply)

NextBrowse == LoadStep \/ KeywordStep \/ SearchStep \/ SortStep

NextDetail == LoadStep \/ CardClickStep \/ FetchSettlesStep \/ closeDetailView

NextChat ==
    ApiKeyStep \/ ProviderStep \/ SendStep \/ RequestSettlesStep \/ clearChatHistory

Next == NextBrowse \/ NextDetail \/ NextChat

\* The whole page
Spec == Init /\ [][Next]_vars

\* The filter / sort pipeline of app.js on its own
SpecBrowse == Init /\ [][NextBrowse]_vars

\* The detail view of app.js on its own
SpecDetail == Init /\ [][NextDetail]_vars

\* chat.js on its own
SpecChat == Init /\ [][NextChat]_vars

NextDebounce == LoadStep \/ SearchInputStep \/ timePasses \/ TimerStep

\* The search box with its debounced listener.  Time keeps passing and an
\* expired timer's callback is run.
SpecDebounce ==
    Init /\ [][NextDebounce]_vars /\ WF_vars(timePasses) /\ WF_vars(TimerStep)

\* An index document with more episodes than getContextForChat describes
BigSlugs == <<"e1", "e2", "e3", "e4", "e5", "e6", "e7", "e8", "e9", "e10",
              "e11", "e12">>
GuestLetters == <<"a", "b", "c", "g", "h", "p">>

BigIndexDocument ==
    [total_episodes |-> Len(BigSlugs),
     all_keywords |-> <<KwPricing, KwGrowth>>,
     episodes |->
        [i \in 1..Len(BigSlugs) |->
            [slug |-> BigSlugs[i], guest |-> <<GuestLetters[1 + ((i - 1) \div 6)],
                         GuestLetters[1 + ((5 * i) % 6)]>>,
             title |-> <<"b">>,
             description |-> <<>>,
             keywords |-> IF i % 2 = 0 THEN <<KwGrowth>> ELSE <<KwPricing, KwGrowth>>,
             duration_seconds |-> 10 * (i % 3),
             view_count |-> 10 * ((5 * i) % 12)]]]

ContextDocuments == IndexDocuments \cup {BigIndexDocument}

\* A transcript body of n characters whose characters depend on the position
LongText(n) ==
    [i \in 1..n |-> IF i % 3 = 0 THEN "c" ELSE IF i % 3 = 1 THEN "a" ELSE "b"]

\* Bodies a transcript fetch may deliver: short, of exactly the length
\* getContextForChat keeps, and longer
ContextTexts ==
    { <<"a", SP, "b">>, LongText(TranscriptLimit), LongText(TranscriptLimit + 3) }

\* The AppStates getContextForChat is applied to: the index was loaded, the
\* keyword boxes were toggled, a sort mode was chosen (the keyword and sort
\* handlers ran), and either no card was clicked or the first card was
\* clicked and its transcript fetched, parsed and rendered.
InitContext ==
    /\ InitChat
    /\ InitSearchBox
    /\ \E doc \in ContextDocuments, keywords \in {{}, {KwPricing}},
          sort \in SortModes, text \in ContextTexts, viewing \in BOOLEAN :
          /\ loadedIndex = doc
          /\ indexData = [total_episodes |-> doc.total_episodes,
                          all_keywords |-> SortKeywords(doc.episodes, doc.all_keywords)]
          /\ allEpisodes = doc.episodes
          /\ selectedKeywords = keywords
          /\ searchQuery = <<>>
          /\ currentSort = sort
          /\ filteredEpisodes =
                sortEpisodes(sortEpisodes(FilterEpisodes(doc.episodes, keywords, <<>>),
                                          "views"), sort)
          /\ lastOp = "sort"
          /\ pagePhase = "ready"
          /\ loadingVisible = FALSE
          /\ transcriptFetches = <<>>
          /\ IF ~viewing
             THEN /\ fetchedText = NullValue
                  /\ currentEpisode = NullValue
                  /\ detailVisible = FALSE
                  /\ clicks = 0
                  /\ lastClicked = NoSlug
             ELSE /\ fetchedText = text
                  /\ currentEpisode =
                        StoreCurrentEpisode(filteredEpisodes[1], parseTranscript(text))
                  /\ detailVisible = TRUE
                  /\ clicks = 1
                  /\ lastClicked = filteredEpisodes[1].slug

NextContext == SendStep \/ closeDetailView

\* sendChatMessage, and with it getContextForChat, over the AppStates of
\* InitContext
SpecContext == InitContext /\ [][NextContext]_vars

-----------------------------------------------------------------------------
(* Claims *)

\* C1: at most one provider request is in flight at any time, whatever the
\* interleaving of send-button clicks, Enter presses and completions.
OneRequestInFlight == Len(aiRequests) <= 1

\* C2: conversationHistory never holds more than 10 turns, and it is always
\* the most recent (up to 10) of the turns appended, in their original
\* order: a truncation removes exactly the oldest turns.
HistoryIsRecentTurns ==
    /\ Len(conversationHistory) <= 10
    /\ Len(conversationHistory) = IF Len(turnLog) < 10 THEN Len(turnLog) ELSE 10
    /\ \A i \in 1..Len(conversationHistory) :
          conversationHistory[i] =
              turnLog[Len(turnLog) - Len(conversationHistory) + i]

\* C2 witness: more than 10 turns were appended, not all with the same
\* message, and 10 are kept
HistoryWasTruncated ==
    /\ Len(turnLog) > 10
    /\ Len(conversationHistory) = 10
    /\ turnLog[1] # turnLog[3]

\* The records the current selection and query admit, stated on the record
SatisfiesFilters(episode) ==
    /\ \A keyword \in selectedKeywords :
          \E i \in 1..Len(episode.keywords) : episode.keywords[i] = keyword
    /\ searchQuery # <<>> =>
          \E i \in 1..Len(SearchText(episode)) :
              /\ i + Len(searchQuery) - 1 <= Len(SearchText(episode))
              /\ \A j \in 1..Len(searchQuery) :
                    SearchText(episode)[i + j - 1] = searchQuery[j]

\* C3: the displayed records are exactly the records of allEpisodes that
\* carry every selected keyword and, with a non-empty query, whose
\* searchable text contains it; un-selecting a keyword never shrinks the
\* displayed set.
FilteredIsConjunctiveMatch ==
    /\ [](pagePhase = "ready" =>
            /\ Range(filteredEpisodes) =
                  {ep \in Range(allEpisodes) : SatisfiesFilters(ep)}
            /\ Len(filteredEpisodes) = Cardinality(Range(filteredEpisodes)))
    /\ [][(selectedKeywords' \subseteq selectedKeywords /\ searchQuery' = searchQuery)
            => Range(filteredEpisodes) \subseteq Range(filteredEpisodes')]_vars

\* C3 witness: two keywords are selected and one record carries both, after
\* a keyword toggle
TwoKeywordsSelected ==
    /\ lastOp = "keyword"
    /\ selectedKeywords = {KwGrowth, KwPricing}
    /\ Len(filteredEpisodes) = 1
    /\ Len(allEpisodes) = 3

\* C4: from the first render on, the displayed sequence equals the full list
\* filtered and then sorted by the current sort mode, whatever the history.
DisplayedIsPureFunction ==
    pagePhase = "ready" =>
        filteredEpisodes =
            sortEpisodes(FilterEpisodes(allEpisodes, selectedKeywords, searchQuery),
                         currentSort)

OrderedBySort(list, sort) ==
    \A i \in 1..(Len(list) - 1) :
        CASE sort = "views" -> list[i].view_count >= list[i + 1].view_count
          [] sort = "duration" -> list[i].duration_seconds >= list[i + 1].duration_seconds
          [] sort = "title" -> LocaleCompare(list[i].guest, list[i + 1].guest) <= 0
          [] OTHER -> FALSE

\* C5: once sortEpisodes has run (a keyword, search or sort handler ran
\* last), the displayed sequence is ordered by the current sort mode; and a
\* switch of the sort mode keeps the displayed records, changing only their
\* order.
SortedByCurrentMode ==
    /\ [](lastOp \in {"keyword", "search", "sort"} =>
            OrderedBySort(filteredEpisodes, currentSort))
    /\ [][currentSort' # currentSort =>
            /\ Range(filteredEpisodes') = Range(filteredEpisodes)
            /\ Len(filteredEpisodes') = Len(filteredEpisodes)]_vars

\* C5 witness: a sort change reordered all three displayed records
SortChangeReordered ==
    /\ lastOp = "sort"
    /\ currentSort = "views"
    /\ Len(filteredEpisodes) = 3
    /\ filteredEpisodes # allEpisodes
    /\ allEpisodes[1].view_count < allEpisodes[3].view_count

\* C6: a message sent while the API key is empty ends with one error message
\* shown, no provider request issued, and conversationHistory and the send
\* button left as they were.
SendWithoutKeyIsRejected ==
    [][(apiKey = <<>> /\ sends' = sends + 1) =>
          /\ chatMessages' = [chatMessages EXCEPT !["error"] = @ + 1]
          /\ aiRequests' = aiRequests
          /\ conversationHistory' = conversationHistory
          /\ sendDisabled' = sendDisabled]_vars

\* C6 witness: the only message sent so far was sent without a key, while a
\* request was not possible
SentWithoutKey ==
    /\ apiKey = <<>>
    /\ sends = 1
    /\ chatMessages["error"] = 1
    /\ chatMessages["user"] = 0
    /\ aiRequests = <<>>

\* C7: the send control is disabled in every state in which a provider
\* request is still in flight (the safety part of idle -> sending -> idle).
SendDisabledWhileInFlight == aiRequests # <<>> => sendDisabled

\* A step in which request i settled successfully and its turn pair was
\* appended (the history then cut to its last 10 turns)
SuccessfulExchangeStep ==
    \E i \in 1..Len(aiRequests), reply \in Replies :
        /\ aiRequests' = RemoveAt(aiRequests, i)
        /\ chatMessages'["assistant"] = chatMessages["assistant"] + 1
        /\ conversationHistory' =
              SliceLast(conversationHistory
                          \o << [role |-> "user", content |-> aiRequests[i].message],
                                [role |-> "assistant", content |-> reply] >>, 10)

\* A step in which a request settled with a failure
FailedExchangeStep ==
    /\ Len(aiRequests') = Len(aiRequests) - 1
    /\ chatMessages'["error"] = chatMessages["error"] + 1

CurrentEpisodeOnlyInDetailView == currentEpisode # NullValue => detailVisible

\* C10: at most one transcript fetch is outstanding, and currentEpisode is
\* the episode clicked most recently.
OneTranscriptFetch ==
    /\ Len(transcriptFetches) <= 1
    /\ currentEpisode # NullValue => currentEpisode.slug = lastClicked

\* C15: conversationHistory has even length and its roles alternate, starting
\* with "user", in every reachable state, whatever the order of sends and
\* completions and whichever provider served them; the cut to the last 10
\* turns leaves a "user" turn first and keeps every pair whole.
HistoryAlternatesRoles ==
    /\ Len(conversationHistory) % 2 = 0
    /\ \A i \in 1..Len(conversationHistory) :
          conversationHistory[i].role = IF i % 2 = 1 THEN "user" ELSE "assistant"
    /\ \A i \in 1..(Len(conversationHistory) \div 2) :
          \E j \in 1..(Len(turnLog) \div 2) :
              /\ conversationHistory[2 * i - 1] = turnLog[2 * j - 1]
              /\ conversationHistory[2 * i] = turnLog[2 * j]

\* C15 witness: six pairs were appended and the history was cut to the last
\* five; it starts with a user turn and holds turns of both messages
HistoryCutToFivePairs ==
    /\ Len(turnLog) = 12
    /\ Len(conversationHistory) = 10
    /\ conversationHistory[1].role = "user"
    /\ conversationHistory[1] = turnLog[3]
    /\ \E i \in 1..10 :
          /\ conversationHistory[i].role = "user"
          /\ conversationHistory[i].content # conversationHistory[1].content

\* C12: once loadIndex succeeded nothing changes the loaded index: in every
\* later state, after any renders, keyword, search and sort operations,
\* allEpisodes equals the loaded episodes (same records, same order) and
\* indexData equals the loaded document, the order of all_keywords included.
LoadedIndexIsNeverMutated ==
    loadedIndex # NullValue =>
        /\ allEpisodes = loadedIndex.episodes
        /\ indexData.total_episodes = loadedIndex.total_episodes
        /\ indexData.all_keywords = loadedIndex.all_keywords

\* The text begins with the frontmatter pattern: a "---" line, metadata, a
\* closing "---" line
BeginsWithFrontmatter(text) ==
    /\ Len(text) >= 3
    /\ SubSeq(text, 1, 3) = Dashes
    /\ \E e1 \in 4..Len(text), q \in 5..Len(text), e2 \in 9..Len(text) :
          /\ e1 < q
          /\ q + 4 <= e2
          /\ text[e1] = NL
          /\ \A i \in 4..e1 : IsSpace(text[i])
          /\ text[q] = NL
          /\ SubSeq(text, q + 1, q + 3) = Dashes
          /\ text[e2] = NL
          /\ \A i \in (q + 4)..e2 : IsSpace(text[i])

\* C13 as stated: for a fetched text that does not begin with the
\* frontmatter pattern, the content parseTranscript returns (stored as
\* fullTranscript) equals the fetched text, character for character,
\* leading and trailing whitespace included.
ContentIsFetchedTextUnmodified ==
    (currentEpisode # NullValue /\ ~BeginsWithFrontmatter(fetchedText)) =>
        currentEpisode.fullTranscript = fetchedText

\* C13 as amended: for a fetched text that does not begin with the
\* frontmatter pattern, the content is the fetched text without its leading
\* and trailing whitespace, and otherwise character for character the same.
ContentIsFetchedTextTrimmed ==
    (currentEpisode # NullValue /\ ~BeginsWithFrontmatter(fetchedText)) =>
        LET content == currentEpisode.fullTranscript
            inner == {i \in 1..Len(fetchedText) : ~IsSpace(fetchedText[i])}
        IN  IF inner = {}
            THEN content = <<>>
            ELSE content = SubSeq(fetchedText, SetMin(inner), SetMax(inner))

\* C13 witness: a text without frontmatter, with whitespace at both ends,
\* was fetched and parsed
WhitespaceTextParsed ==
    /\ currentEpisode # NullValue
    /\ fetchedText = <<SP, "a", NL>>
    /\ ~BeginsWithFrontmatter(fetchedText)
    /\ currentEpisode.fullTranscript = <<"a">>

\* C11: for every AppState, the context getContextForChat returns has a
\* currentEpisode.transcript of at most 8000 characters that is a prefix of
\* the loaded body (the whole body when that is not longer), and an
\* availableEpisodes list of at most 10 entries, which describe the first
\* entries of filteredEpisodes in displayed order; the same bounds hold for
\* the context of every request sent.
ContextIsBounded ==
    LET context == getContextForChat(allEpisodes, filteredEpisodes,
                                     selectedKeywords, currentEpisode)
        available == context.availableEpisodes
    IN  /\ currentEpisode # NullValue =>
             LET transcript == context.currentEpisode.transcript
                 body == currentEpisode.fullTranscript
             IN  /\ Len(transcript) <= 8000
                 /\ Len(transcript) <= Len(body)
                 /\ \A i \in 1..Len(transcript) : transcript[i] = body[i]
                 /\ Len(body) <= 8000 => transcript = body
        /\ Len(available) <= 10
        /\ Len(available) <= Len(filteredEpisodes)
        /\ Len(filteredEpisodes) <= 10 => Len(available) = Len(filteredEpisodes)
        /\ \A i \in 1..Len(available) :
              /\ available[i].guest = filteredEpisodes[i].guest
              /\ available[i].title = filteredEpisodes[i].title
              /\ available[i].keywords = filteredEpisodes[i].keywords
        /\ \A r \in 1..Len(aiRequests) :
              /\ Len(aiRequests[r].context.availableEpisodes) <= 10
              /\ aiRequests[r].context.currentEpisode # NullValue =>
                    Len(aiRequests[r].context.currentEpisode.transcript) <= 8000

\* C11 witness: a request was sent while a transcript longer than 8000
\* characters was open and more than 10 episodes were displayed; its context
\* holds 8000 characters and 10 episodes
ContextWasCut ==
    /\ currentEpisode # NullValue
    /\ Len(currentEpisode.fullTranscript) > 8000
    /\ Len(filteredEpisodes) > 10
    /\ aiRequests # <<>>
    /\ aiRequests[1].context.currentEpisode # NullValue
    /\ Len(aiRequests[1].context.currentEpisode.transcript) = 8000
    /\ Len(aiRequests[1].context.availableEpisodes) = 10

\* C14: each input event of the search box cancels the pending evaluation
\* and schedules a new one, so at most one timer is pending at any time;
\* handleSearch (and with it applyFilters) runs only when DebounceWait ms
\* passed without an input event; it runs with the event of the last
\* keystroke and the text that keystroke left in the box, at most once per
\* event; and after the last keystroke of a burst it does run.
DebounceRunsOncePerBurst ==
    /\ [](Cardinality(timers) <= 1)
    /\ [][keystrokes' # keystrokes =>
            /\ handledEvents' = handledEvents
            /\ timers' = {[id |-> keystrokes', event |-> keystrokes', remaining |-> 300]}]_vars
    /\ [][handledEvents' # handledEvents =>
            /\ sinceKeystroke >= 300
            /\ handledEvents' = Append(handledEvents, keystrokes)
            /\ searchQuery' = ToLower(Trim(searchInputValue))
            /\ lastOp' = "search"
            /\ timers' = {}]_vars
    /\ [](\A i, j \in 1..Len(handledEvents) : i < j => handledEvents[i] < handledEvents[j])
    /\ \A k \in 1..MaxKeystrokes :
          (keystrokes = k) ~>
              (keystrokes > k \/ (handledEvents # <<>>
                                    /\ handledEvents[Len(handledEvents)] = k))

\* C14 witness: a first burst of one keystroke was evaluated, then a burst of
\* two keystrokes, of which only the last was evaluated
TwoBurstsHandled ==
    /\ keystrokes = 3
    /\ handledEvents = <<1, 3>>
    /\ timers = {}
    /\ searchQuery = ToLower(Trim(searchInputValue))
    /\ lastOp = "search"

====
